---- MODULE Spec2Model ----
(***************************************************************************)
(* Model of the sentiment-analysis API worker (backend/src/index.ts):      *)
(* the fetch handler's routes over the D1 tables `movies` and `reviews`    *)
(* and the Workers AI classifier.                                          *)
(*                                                                         *)
(* Conventions.                                                            *)
(*  - A JavaScript value is a tagged record: Undefined, Str(s), Num(n).    *)
(*  - A review text is a sequence of one-character strings; identifiers    *)
(*    and sentiment labels are TLA+ strings.                               *)
(*  - A real number is an integer count of 10^-5 units (Scale).            *)
(*  - Every `await` of the handler is a suspension point: a request in     *)
(*    flight sits in a handler slot h[p] with its position pc.             *)
(***************************************************************************)
EXTENDS Integers, Sequences, FiniteSets, TLC

VARIABLES movies, reviews, now, h, ui

vars == <<movies, reviews, now, h, ui>>

(***************************************************************************)
(* JavaScript values                                                       *)
(***************************************************************************)
Undefined == [t |-> "undefined"]

Str(s) == [t |-> "string", v |-> s]

Num(n) == [t |-> "number", v |-> n]

\* JavaScript ToBoolean, as used by `!body.x` and `x || 0`.
Truthy(x) ==
    \/ x.t = "string" /\ Len(x.v) > 0
    \/ x.t = "number" /\ x.v # 0

\* One unit of a modelled real number is 10^-5.
Scale == 100000

(***************************************************************************)
(* Characters                                                              *)
(***************************************************************************)
Letters ==
    {"a","b","c","d","e","f","g","h","i","j","k","l","m",
     "n","o","p","q","r","s","t","u","v","w","x","y","z",
     "A","B","C","D","E","F","G","H","I","J","K","L","M",
     "N","O","P","Q","R","S","T","U","V","W","X","Y","Z"}

Digits == {"0","1","2","3","4","5","6","7","8","9"}

\* Representatives of the class \s (also what String.prototype.trim strips).
WhiteSpace == {" ", "\t", "\n"}

IsSpace(c) == c \in WhiteSpace

Min(S) == CHOOSE m \in S : \A n \in S : m <= n

Max(S) == CHOOSE m \in S : \A n \in S : m >= n

(***************************************************************************)
(* String.prototype.trim                                                   *)
(***************************************************************************)
Trim(s) ==
    LET ink == {i \in 1..Len(s) : ~IsSpace(s[i])}
    IN  IF ink = {} THEN <<>> ELSE SubSeq(s, Min(ink), Max(ink))

\* String.prototype.substring(0, n)
Substring0(s, n) == IF Len(s) <= n THEN s ELSE SubSeq(s, 1, n)

(***************************************************************************)
(* cleanText, step by step                                                 *)
(***************************************************************************)
\* The cap of cleanText's and saveReview's substring(0, 1000).
MaxTextLen == 1000

\* First match of /<[^>]+>/ in s at or after position from: <<start, end>>,
\* or <<0, 0>> when there is none.  A match starts at a "<" whose next
\* character is not ">" and ends at the first ">" after it.
TagMatch(s, from) ==
    LET starts == {j \in from..Len(s) :
                      /\ s[j] = "<"
                      /\ j + 1 <= Len(s)
                      /\ s[j + 1] # ">"
                      /\ \E k \in (j + 2)..Len(s) : s[k] = ">"}
    IN  IF starts = {} THEN <<0, 0>>
        ELSE LET j == Min(starts)
             IN  <<j, Min({k \in (j + 2)..Len(s) : s[k] = ">"})>>

\* .replace(/<[^>]+>/g, ''): every match, scanning left to right, is dropped.
RECURSIVE StripTagsFrom(_, _)
StripTagsFrom(s, from) ==
    LET m == TagMatch(s, from)
    IN  IF m[1] = 0 THEN SubSeq(s, from, Len(s))
        ELSE SubSeq(s, from, m[1] - 1) \o StripTagsFrom(s, m[2] + 1)

StripTags(s) == StripTagsFrom(s, 1)

\* The complement of the class [^a-zA-Z0-9\s.,!?].
KeptChar(c) ==
    \/ c \in Letters
    \/ c \in Digits
    \/ IsSpace(c)
    \/ c \in {".", ",", "!", "?"}

\* .replace(/[^a-zA-Z0-9\s.,!?]/g, '')
StripSpecial(s) == SelectSeq(s, KeptChar)

\* cleanText with the cut taken before the trim.
cleanTextCutFirst(text) ==
    Trim(StripSpecial(StripTags(Substring0(text, MaxTextLen))))

cleanText(text) ==
    Substring0(Trim(StripSpecial(StripTags(text))), MaxTextLen)

(***************************************************************************)
(* Number.prototype.toFixed and parseFloat                                 *)
(***************************************************************************)
Pow10(d) == CASE d = 0 -> 1 [] d = 1 -> 10 [] d = 2 -> 100 [] d = 3 -> 1000
              [] d = 4 -> 10000 [] d = 5 -> Scale

Abs(n) == IF n < 0 THEN 0 - n ELSE n

\* toFixed cutting the digits off instead of rounding.
toFixedQFloor(num, den, d) ==
    LET q == (Abs(num) * Pow10(d)) \div den
    IN  [neg    |-> num < 0,
         int    |-> q \div Pow10(d),
         frac   |-> q % Pow10(d),
         digits |-> d]

\* (num / den).toFixed(d), den > 0: the decimal numeral with d fraction
\* digits nearest to the number (of two equally near, the larger magnitude),
\* sign kept.
toFixedQ(num, den, d) ==
    LET q == (2 * Abs(num) * Pow10(d) + den) \div (2 * den)
    IN  [neg    |-> num < 0,
         int    |-> q \div Pow10(d),
         frac   |-> q % Pow10(d),
         digits |-> d]

\* x.toFixed(d) of a number held in 10^-5 units (the same rounding, on the
\* units).
toFixed(n, d) ==
    LET unit == Pow10(5 - d)
        q    == (Abs(n) + (unit \div 2)) \div unit
    IN  [neg    |-> n < 0,
         int    |-> q \div Pow10(d),
         frac   |-> q % Pow10(d),
         digits |-> d]

\* The mean cut off after d digits instead of rounded.
toFixedMeanFloor(sum, n, d) ==
    LET q == Abs(sum) \div (Pow10(5 - d) * n)
    IN  [neg    |-> sum < 0,
         int    |-> q \div Pow10(d),
         frac   |-> q % Pow10(d),
         digits |-> d]

\* (sum / n).toFixed(d) of the mean of n numbers held in 10^-5 units, whose
\* sum is `sum` (the same rounding, on the units).
toFixedMean(sum, n, d) ==
    LET unit == Pow10(5 - d) * n
        q    == (2 * Abs(sum) + unit) \div (2 * unit)
    IN  [neg    |-> sum < 0,
         int    |-> q \div Pow10(d),
         frac   |-> q % Pow10(d),
         digits |-> d]

\* parseFloat of a numeral produced by toFixed.
parseFloat(f) ==
    LET m == (f.int * Pow10(f.digits) + f.frac) * Pow10(5 - f.digits)
    IN  IF f.neg THEN 0 - m ELSE m

\* The characters of a toFixed numeral with one fraction digit ("100.0").
Render1(f) ==
    (IF f.neg THEN "-" ELSE "") \o ToString(f.int) \o "." \o ToString(f.frac)

(***************************************************************************)
(* HTTP requests and responses                                             *)
(***************************************************************************)
\* The body of a request: json = FALSE when request.json() rejects.
Body(movieId, text, sentiment, confidence) ==
    [json |-> TRUE, movieId |-> movieId, text |-> text,
     sentiment |-> sentiment, confidence |-> confidence]

NoBody ==
    [json |-> FALSE, movieId |-> Undefined, text |-> Undefined,
     sentiment |-> Undefined, confidence |-> Undefined]

\* url.pathname is a sequence of segments; q is searchParams.get('q').
Request(method, path, q, body) ==
    [method |-> method, path |-> path, q |-> q, body |-> body]

\* jsonResponse(data, status)
jsonResponse(data, status) == [status |-> status, body |-> data]

\* new Response(null, { headers: corsHeaders })
EmptyResponse == [status |-> 200, body |-> [empty |-> TRUE]]

\* The catch block answering with the message alone.
InternalErrorBare ==
    jsonResponse([message |-> "Internal server error"], 500)

\* The catch block of fetch.
InternalError ==
    jsonResponse([error |-> "Internal server error"], 500)

Idle == [pc |-> "idle"]

\* A finished request: what was asked, what was answered, and the texts
\* handed to env.AI.run while handling it.
Done(r, resp, asked) ==
    [pc |-> "done", req |-> r, resp |-> resp, asked |-> asked]

(***************************************************************************)
(* Route: POST /api/predict                                                *)
(***************************************************************************)
IsPredict(r) == r.path = <<"api", "predict">> /\ r.method = "POST"

\* The validation without the trim: if (!body.text)
PredictRejectsEmptyOnly(body) == ~Truthy(body.text)

\* if (!body.text || body.text.trim().length === 0)
PredictRejects(body) ==
    \/ ~Truthy(body.text)
    \/ Len(Trim(body.text.v)) = 0

\* String.prototype.toLowerCase on the labels of the classifier.
toLowerCase(s) ==
    CASE s = "POSITIVE" -> "positive"
      [] s = "NEGATIVE" -> "negative"
      [] s = "NEUTRAL"  -> "neutral"
      [] OTHER          -> s

\* The echo taken from the cleaned text.
PredictEchoCleaned(r, cleanedText) == Str(cleanedText)

\* The text echoed in the predict response.
PredictEcho(r, cleanedText) == r.body.text

\* Lines 54-63: parse aiResponse and build the response.  A rejected
\* env.AI.run, a missing aiResponse[0], a label without toLowerCase and a
\* score without toFixed all throw into the catch block.
PredictResponse(r, cleanedText, ai) ==
    IF ~ai.ok THEN InternalError
    ELSE IF Len(ai.out) = 0 THEN InternalError
    ELSE IF ai.out[1].label.t # "string" THEN InternalError
    ELSE IF ai.out[1].score.t # "number" THEN InternalError
    ELSE jsonResponse(
            [text       |-> PredictEcho(r, cleanedText),
             sentiment  |-> Str(toLowerCase(ai.out[1].label.v)),
             confidence |-> Num(parseFloat(toFixed(ai.out[1].score.v, 4))),
             model      |-> "distilbert-sst-2"], 200)

\* Lines 40-52: up to the suspension at env.AI.run.
PredictStart(r) ==
    IF ~r.body.json THEN Done(r, InternalError, <<>>)
    ELSE IF PredictRejects(r.body)
         THEN Done(r, jsonResponse([error |-> "Text is required"], 400), <<>>)
    ELSE [pc |-> "ai", req |-> r, cleanedText |-> cleanText(r.body.text.v)]

(***************************************************************************)
(* The D1 tables                                                           *)
(***************************************************************************)
THE_SHAWSHANK ==
    <<"T","h","e"," ","S","h","a","w","s","h","a","n","k"," ",
      "R","e","d","e","m","p","t","i","o","n">>

THE_GODFATHER == <<"T","h","e"," ","G","o","d","f","a","t","h","e","r">>

\* The seeded rows of `movies` (seed.sql is not part of the sources; two
\* rows of the catalog the documentation names).
Catalog ==
    {[id |-> "tt0111161", title |-> THE_SHAWSHANK, year |-> 1994,
      poster_url |-> [t |-> "null"]],
     [id |-> "tt0068646", title |-> THE_GODFATHER, year |-> 1972,
      poster_url |-> [t |-> "null"]]}

\* The lookup without its WHERE clause.
FindMovieAny(id) == movies

\* SELECT ... FROM movies WHERE id = ?  (.first(): the row, or none)
FindMovie(id) == {m \in movies : m.id = id}

\* The save route without its 404 branch.
SaveMovieNeverMissing(id) == FALSE

\* if (!movie) of POST /api/reviews
SaveMovieMissing(id) == FindMovie(id) = {}

\* if (!movie) of GET /api/movies/:movieId/sentiment
StatsMovieMissing(id) == FindMovie(id) = {}

\* The identifier of the newest row handed out again.
NextRowIdStuck(rs) ==
    IF Len(rs) = 0 THEN 1 ELSE Max({rs[i].id : i \in 1..Len(rs)})

\* INTEGER PRIMARY KEY AUTOINCREMENT: one more than the largest id used.
NextRowId(rs) ==
    IF Len(rs) = 0 THEN 1 ELSE Max({rs[i].id : i \in 1..Len(rs)}) + 1

\* The text bound without the cut.
StoredTextUncut(text) == text

\* The text bound as review_text.
StoredText(text) == Substring0(text, MaxTextLen)

\* INSERT INTO reviews (movie_id, review_text, sentiment, confidence);
\* created_at DEFAULT CURRENT_TIMESTAMP.  The table's FOREIGN KEY is not
\* relied on: the row is stored whatever movie_id is.
InsertedRow(rs, body, t) ==
    [id          |-> NextRowId(rs),
     movie_id    |-> body.movieId.v,
     review_text |-> StoredText(body.text.v),
     sentiment   |-> body.sentiment.v,
     confidence  |-> body.confidence.v,
     created_at  |-> t]

\* The rows of one movie, in rowid order.
ReviewsOf(rs, id) == SelectSeq(rs, LAMBDA r : r.movie_id = id)

(***************************************************************************)
(* Route: POST /api/reviews                                                *)
(***************************************************************************)
IsSave(r) == r.path = <<"api", "reviews">> /\ r.method = "POST"

\* if (!body.movieId || !body.text || !body.sentiment)
SaveRejects(body) ==
    \/ ~Truthy(body.movieId)
    \/ ~Truthy(body.text)
    \/ ~Truthy(body.sentiment)

\* Lines 67-82: up to the suspension at the movie lookup.
SaveStart(r) ==
    IF ~r.body.json THEN Done(r, InternalError, <<>>)
    ELSE IF SaveRejects(r.body)
         THEN Done(r, jsonResponse([error |-> "Missing required fields"], 400),
                   <<>>)
    ELSE [pc |-> "save_find", req |-> r]

\* D1 rejects a bound `undefined` (D1_TYPE_ERROR): the statement throws.
BindThrows(body) == body.confidence.t = "undefined"

\* Lines 80-86: the lookup returns; 404, or on to the insert.
SaveFindMovie(p) ==
    /\ h[p].pc = "save_find"
    /\ h' = [h EXCEPT ![p] =
               IF SaveMovieMissing(h[p].req.body.movieId.v)
               THEN Done(h[p].req,
                         jsonResponse([error |-> "Movie not found"], 404), <<>>)
               ELSE [pc |-> "save_insert", req |-> h[p].req]]
    /\ UNCHANGED <<movies, reviews, now, ui>>

\* The insert written as INSERT OR REPLACE over the newest row.
SaveInsertReplacing(p) ==
    /\ h[p].pc = "save_insert"
    /\ IF BindThrows(h[p].req.body)
       THEN /\ h' = [h EXCEPT ![p] = Done(h[p].req, InternalError, <<>>)]
            /\ UNCHANGED reviews
       ELSE LET row == InsertedRow(reviews, h[p].req.body, now)
            IN  /\ reviews' = IF Len(reviews) = 0 THEN <<row>>
                              ELSE [reviews EXCEPT ![Len(reviews)] = row]
                /\ h' = [h EXCEPT ![p] =
                           Done(h[p].req,
                                jsonResponse(
                                   [success  |-> TRUE,
                                    reviewId |-> row.id,
                                    message  |-> "Review saved successfully"],
                                   201), <<>>)]
    /\ UNCHANGED <<movies, now, ui>>

\* Lines 88-102: the insert runs and the response is built.
SaveInsert(p) ==
    /\ h[p].pc = "save_insert"
    /\ IF BindThrows(h[p].req.body)
       THEN /\ h' = [h EXCEPT ![p] = Done(h[p].req, InternalError, <<>>)]
            /\ UNCHANGED reviews
       ELSE LET row == InsertedRow(reviews, h[p].req.body, now)
            IN  /\ reviews' = Append(reviews, row)
                /\ h' = [h EXCEPT ![p] =
                           Done(h[p].req,
                                jsonResponse(
                                   [success  |-> TRUE,
                                    reviewId |-> row.id,
                                    message  |-> "Review saved successfully"],
                                   201), <<>>)]
    /\ UNCHANGED <<movies, now, ui>>

(***************************************************************************)
(* Route: GET /api/movies/:movieId/sentiment                               *)
(***************************************************************************)
Null == [t |-> "null"]

\* path.match(/^\/api\/movies\/[^\/]+\/sentiment$/) && method === 'GET'
IsStats(r) ==
    /\ r.method = "GET"
    /\ Len(r.path) = 4
    /\ r.path[1] = "api" /\ r.path[2] = "movies" /\ r.path[4] = "sentiment"
    /\ Len(r.path[3]) > 0

\* path.split('/')[3]
StatsMovieId(r) == r.path[3]

RECURSIVE SumConfidence(_)
SumConfidence(rs) ==
    IF Len(rs) = 0 THEN 0 ELSE Head(rs).confidence + SumConfidence(Tail(rs))

\* SUM(CASE WHEN sentiment = s THEN 1 ELSE 0 END)
CountSentiment(rs, s) == Len(SelectSeq(rs, LAMBDA r : r.sentiment = s))

\* The aggregate query over the rows of one movie.  SUM and AVG of no rows
\* are NULL; AVG is kept exact, as the pair sum / n.
AggregateStats(rs, id) ==
    LET mine == ReviewsOf(rs, id)
        n    == Len(mine)
    IN  [total_reviews  |-> n,
         positive_count |-> IF n = 0 THEN Null
                            ELSE Num(CountSentiment(mine, "positive")),
         negative_count |-> IF n = 0 THEN Null
                            ELSE Num(CountSentiment(mine, "negative")),
         avg_confidence |-> IF n = 0 THEN Null
                            ELSE [t |-> "ratio", sum |-> SumConfidence(mine),
                                  n |-> n]]

\* LIMIT of the recent-reviews query.
RecentLimit == 10

\* The listing in ascending order of created_at.
RECURSIVE OldestFirst(_, _)
OldestFirst(S, k) ==
    IF k = 0 \/ S = {} THEN {<<>>}
    ELSE LET t == Min({r.created_at : r \in S})
         IN  UNION {{<<r>> \o rest : rest \in OldestFirst(S \ {r}, k - 1)} :
                       r \in {x \in S : x.created_at = t}}

\* The ways to list the k newest rows of S, newest first: at each place any
\* of the rows with the latest timestamp left (ORDER BY leaves the order of
\* rows with equal keys open).
RECURSIVE NewestFirst(_, _)
NewestFirst(S, k) ==
    IF k = 0 \/ S = {} THEN {<<>>}
    ELSE LET t == Max({r.created_at : r \in S})
         IN  UNION {{<<r>> \o rest : rest \in NewestFirst(S \ {r}, k - 1)} :
                       r \in {x \in S : x.created_at = t}}

\* The recent-reviews query over the oldest rows only.
RecentReviewsStale(rs, id) ==
    LET mine == ReviewsOf(rs, id)
    IN  NewestFirst({mine[i] : i \in 1..(Len(mine) - 1)}, RecentLimit)

\* SELECT ... WHERE movie_id = ? ORDER BY created_at DESC LIMIT 10: the
\* possible result lists.
RecentReviews(rs, id) ==
    LET mine == ReviewsOf(rs, id)
    IN  NewestFirst({mine[i] : i \in 1..Len(mine)}, RecentLimit)

\* Ticks of the clock per calendar day.
TicksPerDay == 2

\* DATE(created_at)
DateOf(t) == t \div TicksPerDay

\* The window of the trend query, in days.
TrendDays == 30

\* The window measured from the current time of day instead of from the
\* start of the day 30 days back.
InWindowToTheTick(t, today) == t >= today - TrendDays * TicksPerDay

\* created_at >= date('now', '-30 days'): a timestamp is compared with the
\* date 30 days back, so the whole of that day is inside the window.
InWindow(t, today) == DateOf(t) >= DateOf(today) - TrendDays

RECURSIVE SortDesc(_)
SortDesc(S) ==
    IF S = {} THEN <<>> ELSE <<Max(S)>> \o SortDesc(S \ {Max(S)})

\* The trend query: one row per date with a review inside the window,
\* newest date first.
Trend(rs, id, today) ==
    LET mine  == SelectSeq(ReviewsOf(rs, id),
                           LAMBDA r : InWindow(r.created_at, today))
        dates == SortDesc({DateOf(mine[i].created_at) : i \in 1..Len(mine)})
    IN  [k \in 1..Len(dates) |->
            LET day == SelectSeq(mine,
                                 LAMBDA r : DateOf(r.created_at) = dates[k])
            IN  [date     |-> dates[k],
                 positive |-> CountSentiment(day, "positive"),
                 negative |-> CountSentiment(day, "negative")]]

\* x || 0 for a count that may be NULL.
OrZero(x) == IF Truthy(x) THEN x.v ELSE 0

\* stats.total_reviews ? ((positive_count / total_reviews) * 100).toFixed(1) : 0
PositivePercentage(stats) ==
    IF stats.total_reviews # 0
    THEN Str(Render1(toFixedQ(OrZero(stats.positive_count) * 100,
                              stats.total_reviews, 1)))
    ELSE Num(0)

\* stats.avg_confidence ? parseFloat(stats.avg_confidence.toFixed(3)) : 0
AverageConfidence(stats) ==
    IF stats.avg_confidence.t = "ratio" /\ stats.avg_confidence.sum # 0
    THEN Num(parseFloat(toFixedMean(stats.avg_confidence.sum,
                                    stats.avg_confidence.n, 3)))
    ELSE Num(0)

\* Lines 146-170: the response assembled from the four query results.
StatsResponse(movie, stats, recent, trend) ==
    jsonResponse(
       [movie |-> [id |-> movie.id, title |-> movie.title, year |-> movie.year],
        stats |-> [totalReviews       |-> stats.total_reviews,
                   positiveCount      |-> OrZero(stats.positive_count),
                   negativeCount      |-> OrZero(stats.negative_count),
                   positivePercentage |-> PositivePercentage(stats),
                   averageConfidence  |-> AverageConfidence(stats)],
        recentReviews |-> [i \in 1..Len(recent) |->
                              [text       |-> recent[i].review_text,
                               sentiment  |-> recent[i].sentiment,
                               confidence |-> recent[i].confidence,
                               date       |-> recent[i].created_at]],
        trend |-> trend], 200)

\* Up to the suspension at the movie lookup.
StatsStart(r) == [pc |-> "stats_find", req |-> r]

\* Lines 110-116: the lookup returns; 404, or on to the aggregate query.
StatsFindMovie(p) ==
    /\ h[p].pc = "stats_find"
    /\ h' = [h EXCEPT ![p] =
               IF StatsMovieMissing(StatsMovieId(h[p].req))
               THEN Done(h[p].req,
                         jsonResponse([error |-> "Movie not found"], 404), <<>>)
               ELSE [pc |-> "stats_agg", req |-> h[p].req,
                     movie |-> CHOOSE m \in FindMovie(StatsMovieId(h[p].req)) :
                                  TRUE]]
    /\ UNCHANGED <<movies, reviews, now, ui>>

\* The aggregate query carrying the WHERE clause of the trend query.
StatsAggregateWindowed(p) ==
    /\ h[p].pc = "stats_agg"
    /\ h' = [h EXCEPT ![p] =
               [pc |-> "stats_recent", req |-> h[p].req, movie |-> h[p].movie,
                stats |-> AggregateStats(
                             SelectSeq(reviews,
                                       LAMBDA r : InWindow(r.created_at, now)),
                             StatsMovieId(h[p].req))]]
    /\ UNCHANGED <<movies, reviews, now, ui>>

\* Lines 119-127: the aggregate query runs.
StatsAggregate(p) ==
    /\ h[p].pc = "stats_agg"
    /\ h' = [h EXCEPT ![p] =
               [pc |-> "stats_recent", req |-> h[p].req, movie |-> h[p].movie,
                stats |-> AggregateStats(reviews, StatsMovieId(h[p].req))]]
    /\ UNCHANGED <<movies, reviews, now, ui>>

\* Lines 130-132: the recent-reviews query runs.
StatsRecent(p) ==
    /\ h[p].pc = "stats_recent"
    /\ \E recent \in RecentReviews(reviews, StatsMovieId(h[p].req)) :
          h' = [h EXCEPT ![p] =
                  [pc |-> "stats_trend", req |-> h[p].req,
                   movie |-> h[p].movie, stats |-> h[p].stats,
                   recent |-> recent]]
    /\ UNCHANGED <<movies, reviews, now, ui>>

\* Lines 135-170: the trend query runs and the response is built.
StatsTrend(p) ==
    /\ h[p].pc = "stats_trend"
    /\ h' = [h EXCEPT ![p] =
               Done(h[p].req,
                    StatsResponse(h[p].movie, h[p].stats, h[p].recent,
                                  Trend(reviews, StatsMovieId(h[p].req), now)),
                    <<>>)]
    /\ UNCHANGED <<movies, reviews, now, ui>>

(***************************************************************************)
(* Route: GET /api/movies                                                  *)
(***************************************************************************)
IsSearch(r) == r.path = <<"api", "movies">> /\ r.method = "GET"

\* The characters of the model in the order of their codes (the order of
\* SQLite's BINARY collation).
CharOrder ==
    <<"\t", "\n", " ", "!", "#", "%", ",", ".",
      "0","1","2","3","4","5","6","7","8","9", "<", ">", "?",
      "A","B","C","D","E","F","G","H","I","J","K","L","M",
      "N","O","P","Q","R","S","T","U","V","W","X","Y","Z", "_",
      "a","b","c","d","e","f","g","h","i","j","k","l","m",
      "n","o","p","q","r","s","t","u","v","w","x","y","z">>

Ord(c) == CHOOSE i \in 1..Len(CharOrder) : CharOrder[i] = c

\* a sorts before b under BINARY: the first position where they differ
\* decides; a proper prefix sorts first.
TitleLess(a, b) ==
    \E i \in 1..(Len(b)) :
        /\ \A j \in 1..(i - 1) : j <= Len(a) /\ a[j] = b[j]
        /\ \/ i = Len(a) + 1
           \/ i <= Len(a) /\ Ord(a[i]) < Ord(b[i])

\* The ways to list the first k rows of S in title order.
RECURSIVE TitleFirst(_, _)
TitleFirst(S, k) ==
    IF k = 0 \/ S = {} THEN {<<>>}
    ELSE UNION {{<<m>> \o rest : rest \in TitleFirst(S \ {m}, k - 1)} :
                   m \in {x \in S : \A y \in S : ~TitleLess(y.title, x.title)}}

\* LIKE folds the case of the ASCII letters.
FoldCase(c) ==
    IF c \in Letters /\ Ord(c) < Ord("_") THEN CharOrder[Ord(c) + 27] ELSE c

\* LIKE without the wildcards and without the case folding: the pattern's
\* inner characters occur in s as they are.
LikeLiteral(pat, s) ==
    LET q == SubSeq(pat, 2, Len(pat) - 1)
    IN  \E k \in 0..(Len(s) - Len(q)) :
           \A i \in 1..Len(q) : s[k + i] = q[i]

\* s LIKE pat: "%" stands for any run of characters, "_" for any one
\* character, any other character for itself in either case.
RECURSIVE Like(_, _)
Like(pat, s) ==
    IF Len(pat) = 0 THEN Len(s) = 0
    ELSE IF Head(pat) = "%"
         THEN \E k \in 0..Len(s) : Like(Tail(pat), SubSeq(s, k + 1, Len(s)))
    ELSE /\ Len(s) > 0
         /\ Head(pat) = "_" \/ FoldCase(Head(pat)) = FoldCase(Head(s))
         /\ Like(Tail(pat), Tail(s))

\* LIMIT of the search with a query.
SearchLimit == 20

\* LIMIT of the listing without a query.
ListLimit == 50

\* The search without its WHERE clause.
SearchMoviesUnfiltered(ms, q) ==
    TitleFirst(ms, IF Truthy(q) THEN SearchLimit ELSE ListLimit)

\* Lines 177-187: the statement chosen by `if (searchQuery)` and its
\* possible result lists.
SearchMovies(ms, q) ==
    IF Truthy(q)
    THEN TitleFirst({m \in ms : Like(<<"%">> \o q.v \o <<"%">>, m.title)},
                    SearchLimit)
    ELSE TitleFirst(ms, ListLimit)

\* Up to the suspension at the query.
SearchStart(r) == [pc |-> "search", req |-> r]

\* Lines 187-192: the query returns and the response is built.
SearchReturn(p) ==
    /\ h[p].pc = "search"
    /\ \E results \in SearchMovies(movies, h[p].req.q) :
          h' = [h EXCEPT ![p] =
                  Done(h[p].req,
                       jsonResponse([movies |-> results,
                                     count  |-> Len(results)], 200), <<>>)]
    /\ UNCHANGED <<movies, reviews, now, ui>>

(***************************************************************************)
(* Route: POST /api/predict, after the suspension                          *)
(***************************************************************************)
\* What env.AI.run can settle with: a rejection, or an array of results.
AiLabels == {Undefined, Str("POSITIVE"), Str("NEGATIVE"), Str("NEUTRAL")}

AiScores == {Undefined, Num(92346), Num(Scale), Num(150000), Num(-10000)}

AiOutcomes ==
    {[ok |-> FALSE, out |-> <<>>], [ok |-> TRUE, out |-> <<>>]}
    \cup {[ok |-> TRUE, out |-> <<[label |-> l, score |-> sc]>>] :
             l \in AiLabels, sc \in AiScores}

\* Lines 50-63: env.AI.run settles with `ai` and the response is built.
PredictAiSettles(p, ai) ==
    /\ h[p].pc = "ai"
    /\ h' = [h EXCEPT ![p] =
               Done(h[p].req,
                    PredictResponse(h[p].req, h[p].cleanedText, ai),
                    <<h[p].cleanedText>>)]
    /\ UNCHANGED <<movies, reviews, now, ui>>

PredictAiReturn(p) == \E ai \in AiOutcomes : PredictAiSettles(p, ai)

(***************************************************************************)
(* The router                                                              *)
(***************************************************************************)
IsHealth(r) == r.path = <<"api", "health">> /\ r.method = "GET"

\* The synchronous head of fetch: the route is chosen and run up to its
\* first suspension on the database or the classifier.
Start(r, t) ==
    IF r.method = "OPTIONS" THEN Done(r, EmptyResponse, <<>>)
    ELSE IF IsPredict(r) THEN PredictStart(r)
    ELSE IF IsSave(r) THEN SaveStart(r)
    ELSE IF IsStats(r) THEN StatsStart(r)
    ELSE IF IsSearch(r) THEN SearchStart(r)
    ELSE IF IsHealth(r)
         THEN Done(r, jsonResponse([status    |-> "healthy",
                                    timestamp |-> t,
                                    service   |-> "sentiment-api"], 200), <<>>)
    ELSE Done(r, jsonResponse([error |-> "Not found"], 404), <<>>)

\* The most rows the model lets the reviews table hold.
MaxReviews == 2

\* The number of requests the model lets be in flight at once.
MaxInflight == 2

Procs == 1..MaxInflight

\* Requests on their way to an insert.
Inserting == {p \in Procs : h[p].pc \in {"save_find", "save_insert"}}

\* A request arrives at an idle handler.  A request that would go on to an
\* insert is admitted only while the table has room for its row.
Accept(p, r) ==
    /\ h[p].pc = "idle"
    /\ Start(r, now).pc = "save_find" =>
          Len(reviews) + Cardinality(Inserting) < MaxReviews
    /\ h' = [h EXCEPT ![p] = Start(r, now)]

\* A request arrives from a client that is not modelled.
Receive(p, r) ==
    /\ Accept(p, r)
    /\ UNCHANGED <<movies, reviews, now, ui>>

\* The response is handed to the client and the handler ends.
Deliver(p) ==
    /\ h[p].pc = "done"
    /\ h' = [h EXCEPT ![p] = Idle]
    /\ UNCHANGED <<movies, reviews, now, ui>>

\* The most ticks the model lets the clock advance.
MaxTicks == 2

\* The clock at the start of a run that begins with a filled table: the
\* last tick of day 40.
StartNow == 40 * TicksPerDay + (TicksPerDay - 1)

\* Time passes.
Tick ==
    /\ now < StartNow + MaxTicks
    /\ now' = now + 1
    /\ UNCHANGED <<movies, reviews, h, ui>>

(***************************************************************************)
(* The browser: the state of App, MovieSearch, ReviewInput and             *)
(* SentimentResult after the first render                                  *)
(***************************************************************************)
\* No fetch of the page is waiting on this handler.
NoFetch == [kind |-> "none"]

\* useState initial values.  `pending` holds, for each request the page has
\* in flight, the continuation that waits for its response.  `analyzedFor`
\* and `shownSaved` are history fields used by the properties only: the
\* movie that was selected when the analysis of the displayed result was
\* requested, and whether the displayed result has been saved.
UiStart ==
    [selectedMovie   |-> Null,
     sentimentResult |-> Null,
     showMovieDetail |-> FALSE,
     searchQuery     |-> <<>>,
     movies          |-> <<>>,
     isLoading       |-> FALSE,
     showDropdown    |-> FALSE,
     reviewText      |-> <<>>,
     isAnalyzing     |-> FALSE,
     inputError      |-> Null,
     isSaving        |-> FALSE,
     saved           |-> FALSE,
     saveError       |-> Null,
     pending         |-> [p \in Procs |-> NoFetch],
     analyzedFor     |-> Null,
     shownSaved      |-> FALSE]

Init ==
    /\ movies = Catalog
    /\ reviews = <<>>
    /\ now = 0
    /\ h = [p \in Procs |-> Idle]
    /\ ui = UiStart

(***************************************************************************)
(* Requests                                                                *)
(***************************************************************************)
Rep(c, n) == [i \in 1..n |-> c]

PredictRequest(text) ==
    Request("POST", <<"api", "predict">>, Undefined,
            Body(Undefined, text, Undefined, Undefined))

SaveRequest(body) == Request("POST", <<"api", "reviews">>, Undefined, body)

StatsRequest(id) ==
    Request("GET", <<"api", "movies", id, "sentiment">>, Undefined, NoBody)

GREAT_MOVIE ==
    <<"<","b",">","G","r","e","a","t"," ","m","o","v","i","e","!","!","!",
      "<","/","b",">">>

BEST_MOVIE ==
    <<"B","e","s","t"," ","m","o","v","i","e"," ","e","v","e","r","!">>

TextAlphabet == {"a", " ", "!", "<", ">", "#"}

\* The longest raw text enumerated character by character.
MaxRawLen == 3

ShortTexts == UNION {[1..n -> TextAlphabet] : n \in 0..MaxRawLen}

\* Texts around the 1000-character cap.
LongTexts ==
    {Rep("x", MaxTextLen + 1),
     <<" ", " ">> \o Rep("x", MaxTextLen),
     Rep("x", MaxTextLen - 1) \o <<" ", "y">>,
     <<"<", "b", ">">> \o Rep("x", MaxTextLen) \o <<"#", "z">>}

AnalyzeTexts ==
    {Undefined} \cup {Str(s) : s \in ShortTexts \cup LongTexts \cup {GREAT_MOVIE}}

AnalyzeRequests ==
    {PredictRequest(t) : t \in AnalyzeTexts}
    \cup {Request("POST", <<"api", "predict">>, Undefined, NoBody)}

(***************************************************************************)
(* SpecAnalyze: one handler serving POST /api/predict                      *)
(***************************************************************************)
NextAnalyze ==
    \/ \E r \in AnalyzeRequests : Receive(1, r)
    \/ PredictAiReturn(1)
    \/ Deliver(1)

SpecAnalyze == Init /\ [][NextAnalyze]_vars

(***************************************************************************)
(* Claims about POST /api/predict (checked under SpecAnalyze)              *)
(***************************************************************************)
\* A text that is missing, empty or made of whitespace only.
BlankText(x) ==
    \/ x.t = "undefined"
    \/ x.t = "string" /\ \A i \in 1..Len(x.v) : x.v[i] \in WhiteSpace

\* C8: analyze answers 400 to every text that is missing, empty or only
\* whitespace, and the classifier is not invoked for it.
C8_BlankTextRejected ==
    \A p \in Procs :
        (/\ h[p].pc # "idle"
         /\ IsPredict(h[p].req)
         /\ h[p].req.body.json
         /\ BlankText(h[p].req.body.text))
        => (/\ h[p].pc = "done"
            /\ h[p].resp.status = 400
            /\ h[p].asked = <<>>)

C8_Witness ==
    \E p \in Procs :
        /\ h[p].pc = "done"
        /\ IsPredict(h[p].req)
        /\ h[p].req.body.text = Str(<<" ", " ">>)
        /\ h[p].resp.status = 400
        /\ h[p].asked = <<>>

\* Position i of s lies inside an angle-bracket tag: a "<" at or before i,
\* followed by a character other than ">", with no ">" between it and i, and
\* a ">" at or after i that closes it.
InTag(s, i) ==
    \E j \in 1..i :
        /\ s[j] = "<"
        /\ j < Len(s)
        /\ s[j + 1] # ">"
        /\ \A m \in (j + 1)..(i - 1) : s[m] # ">"
        /\ \E q \in (IF i > j + 2 THEN i ELSE j + 2)..Len(s) : s[q] = ">"

AllowedChar(c) ==
    c \in Letters \cup Digits \cup WhiteSpace \cup {".", ",", "!", "?"}

\* The text the claim describes: tags removed, then disallowed characters
\* removed, then trimmed, then cut to the first 1000 characters.
ExpectedClean(raw) ==
    LET marked   == [i \in 1..Len(raw) |-> <<i, raw[i]>>]
        untagged == SelectSeq(marked, LAMBDA m : ~InTag(raw, m[1]))
        allowed  == SelectSeq(untagged, LAMBDA m : AllowedChar(m[2]))
        inner    == {i \in 1..Len(allowed) : allowed[i][2] \notin WhiteSpace}
        first    == IF inner = {} THEN 1 ELSE Min(inner)
        last     == IF inner = {} THEN 0 ELSE Max(inner)
        upto     == IF last - first + 1 > 1000 THEN first + 999 ELSE last
    IN  [i \in 1..(upto - first + 1) |-> allowed[first + i - 1][2]]

GREAT_MOVIE_CLEAN ==
    <<"G","r","e","a","t"," ","m","o","v","i","e","!","!","!">>

\* C9: the text handed to the classifier is the raw text with tags removed,
\* then disallowed characters removed, then trimmed, then cut to 1000
\* characters; it is at most 1000 characters long and holds only allowed
\* characters; "<b>Great movie!!!</b>" is classified as "Great movie!!!".
C9_ClassifierInputIsCleaned ==
    \A p \in Procs :
        h[p].pc = "ai" =>
            /\ h[p].cleanedText = ExpectedClean(h[p].req.body.text.v)
            /\ Len(h[p].cleanedText) <= 1000
            /\ \A i \in 1..Len(h[p].cleanedText) :
                  AllowedChar(h[p].cleanedText[i])
            /\ h[p].req.body.text.v = GREAT_MOVIE =>
                  h[p].cleanedText = GREAT_MOVIE_CLEAN

\* A tagged text with a disallowed character that is cut at the cap.
C9_Witness ==
    \E p \in Procs :
        /\ h[p].pc = "ai"
        /\ h[p].req.body.text.v =
              <<"<", "b", ">">> \o Rep("x", MaxTextLen) \o <<"#", "z">>
        /\ h[p].cleanedText = Rep("x", 1000)

\* C10: a successful analyze response carries the raw text as submitted,
\* with the sentiment, the confidence and the model identifier.
C10_EchoesRawText ==
    \A p \in Procs :
        (h[p].pc = "done" /\ IsPredict(h[p].req) /\ h[p].resp.status = 200)
        => (/\ h[p].resp.body.text = h[p].req.body.text
            /\ DOMAIN h[p].resp.body =
                  {"text", "sentiment", "confidence", "model"}
            /\ h[p].resp.body.model = "distilbert-sst-2")

\* A success whose raw text differs from the text that was classified.
C10_Witness ==
    \E p \in Procs :
        /\ h[p].pc = "done"
        /\ IsPredict(h[p].req)
        /\ h[p].resp.status = 200
        /\ h[p].req.body.text = Str(GREAT_MOVIE)
        /\ h[p].asked = <<GREAT_MOVIE_CLEAN>>
        /\ h[p].resp.body.text = Str(GREAT_MOVIE)

\* C5: analyze never answers with success carrying a sentiment outside
\* {positive, negative} or a confidence outside [0, 1]; a malformed
\* classifier result is a failure.
C5_MalformedResultFails ==
    \A p \in Procs :
        (h[p].pc = "done" /\ IsPredict(h[p].req) /\ h[p].resp.status = 200)
        => (/\ h[p].resp.body.sentiment.v \in {"positive", "negative"}
            /\ h[p].resp.body.confidence.v >= 0
            /\ h[p].resp.body.confidence.v <= Scale)

(***************************************************************************)
(* SpecReviews: one handler serving POST /api/reviews and the stats route  *)
(***************************************************************************)
SaveMovieIds ==
    {Undefined, Str("tt0111161"), Str("tt0068646"), Str("tt9999999")}

SaveSentiments ==
    {Undefined, Str("positive"), Str("negative"), Str("neutral")}

SaveConfidences == {Undefined, Num(95000), Num(150000)}

\* Every combination of the fields with a short text, and one review whose
\* text is longer than the cap.
SaveBodies ==
    {Body(m, t, s, c) :
        m \in SaveMovieIds,
        t \in {Undefined, Str(<<>>), Str(BEST_MOVIE)},
        s \in SaveSentiments,
        c \in SaveConfidences}
    \cup {Body(Str("tt0111161"), Str(Rep("x", MaxTextLen + 1)),
               Str("positive"), Num(95000))}

ReviewRequests ==
    {SaveRequest(b) : b \in SaveBodies \cup {NoBody}}
    \cup {StatsRequest(id) : id \in {"tt0111161", "tt0068646", "tt9999999"}}

NextReviews ==
    \/ \E r \in ReviewRequests : Receive(1, r)
    \/ SaveFindMovie(1)
    \/ SaveInsert(1)
    \/ StatsFindMovie(1)
    \/ StatsAggregate(1)
    \/ StatsRecent(1)
    \/ StatsTrend(1)
    \/ Deliver(1)

SpecReviews == Init /\ [][NextReviews]_vars

(***************************************************************************)
(* Spec: concurrent handlers over a small set of requests on the database  *)
(* routes (POST /api/predict touches no table: it is left to SpecAnalyze)  *)
(***************************************************************************)
ConcurrentRequests ==
    {SaveRequest(Body(Str("tt0111161"), Str(BEST_MOVIE), Str(s), Num(95000))) :
        s \in {"positive", "negative"}}
    \cup {SaveRequest(Body(Str("tt9999999"), Str(BEST_MOVIE), Str("positive"),
                           Num(95000)))}
    \cup {StatsRequest("tt0111161")}

Next ==
    \E p \in Procs :
        \/ \E r \in ConcurrentRequests : Receive(p, r)
        \/ SaveFindMovie(p)
        \/ SaveInsert(p)
        \/ StatsFindMovie(p)
        \/ StatsAggregate(p)
        \/ StatsRecent(p)
        \/ StatsTrend(p)
        \/ Deliver(p)

Spec == Init /\ [][Next]_vars

(***************************************************************************)
(* Claims about the reviews table and the stats route                      *)
(***************************************************************************)
CatalogIds == {m.id : m \in movies}

\* C1: every stored review belongs to a movie of the catalog, whatever the
\* interleaving of the handlers.
C1_ReviewsReferenceCatalog ==
    \A i \in 1..Len(reviews) : reviews[i].movie_id \in CatalogIds

\* A save for an unknown movie was refused while another save is between
\* its lookup and its insert and a review is already stored.
C1_Witness ==
    \E p, q \in Procs :
        /\ h[p].pc = "done"
        /\ IsSave(h[p].req)
        /\ h[p].req.body.movieId.v \notin CatalogIds
        /\ h[p].resp.status = 404
        /\ h[q].pc = "save_insert"
        /\ Len(reviews) > 0

\* The stats block getStats answers with when nothing else runs meanwhile.
StatsBlock(rs, id) ==
    StatsResponse([id |-> id, title |-> <<>>, year |-> 0],
                  AggregateStats(rs, id), <<>>, <<>>).body.stats

\* C2: in every statistics response the positive and negative counts add
\* up to the total.
C2_CountsAddUp ==
    \A p \in Procs :
        (h[p].pc = "done" /\ IsStats(h[p].req) /\ h[p].resp.status = 200)
        => h[p].resp.body.stats.positiveCount
              + h[p].resp.body.stats.negativeCount
           = h[p].resp.body.stats.totalReviews

\* A field that is missing: absent, or the empty string.
Missing(x) == x.t = "undefined" \/ (x.t = "string" /\ Len(x.v) = 0)

OutOfRange(x) == x.t = "number" /\ (x.v < 0 \/ x.v > Scale)

\* C3: a save with a missing field or a confidence outside [0, 1] is
\* answered 400 and never reaches the insert.
C3_InvalidSaveRejected ==
    \A p \in Procs :
        (/\ h[p].pc # "idle"
         /\ IsSave(h[p].req)
         /\ h[p].req.body.json
         /\ \/ Missing(h[p].req.body.movieId)
            \/ Missing(h[p].req.body.text)
            \/ Missing(h[p].req.body.sentiment)
            \/ Missing(h[p].req.body.confidence)
            \/ OutOfRange(h[p].req.body.confidence))
        => (/\ h[p].pc # "save_insert"
            /\ h[p].pc = "done" => h[p].resp.status = 400)

\* C4: every stored confidence lies in [0, 1].
C4_ConfidenceInRange ==
    \A i \in 1..Len(reviews) :
        reviews[i].confidence >= 0 /\ reviews[i].confidence <= Scale

\* The request names a movie that is not in the catalog.
UnknownMovieSave(r) ==
    /\ IsSave(r)
    /\ r.body.json
    /\ r.body.movieId.t = "string"
    /\ Len(r.body.movieId.v) > 0
    /\ r.body.movieId.v \notin CatalogIds

UnknownMovieStats(r) == IsStats(r) /\ r.path[3] \notin CatalogIds

\* C6 as stated: saveReview and getStats for a movie that is not in the
\* catalog are answered 404.
C6_UnknownMovieIs404 ==
    \A p \in Procs :
        (/\ h[p].pc = "done"
         /\ UnknownMovieSave(h[p].req) \/ UnknownMovieStats(h[p].req))
        => h[p].resp.status = 404

\* C6, amended: getStats for a movie that is not in the catalog is answered
\* 404; saveReview for such a movie is answered 404 when movieId, text and
\* sentiment are all present and 400 when the text or the sentiment is
\* missing; in both cases it never reaches the insert and none of its steps
\* changes the reviews table.
C6_UnknownMovieRefused ==
    /\ [](\A p \in Procs :
            h[p].pc # "idle" =>
               /\ UnknownMovieStats(h[p].req) =>
                     (h[p].pc = "done" => h[p].resp.status = 404)
               /\ UnknownMovieSave(h[p].req) =>
                     /\ h[p].pc # "save_insert"
                     /\ h[p].pc = "done" =>
                           h[p].resp.status =
                              (IF \/ Missing(h[p].req.body.text)
                                  \/ Missing(h[p].req.body.sentiment)
                               THEN 400 ELSE 404))
    /\ [][\A p \in Procs :
            (/\ h'[p] # h[p]
             /\ \/ h[p].pc # "idle" /\ UnknownMovieSave(h[p].req)
                \/ h'[p].pc # "idle" /\ UnknownMovieSave(h'[p].req))
            => reviews' = reviews]_vars

\* A complete save for an unknown movie was answered 404 with a review
\* already in the table.
C6_Witness ==
    \E p \in Procs :
        /\ h[p].pc = "done"
        /\ UnknownMovieSave(h[p].req)
        /\ ~Missing(h[p].req.body.text)
        /\ ~Missing(h[p].req.body.sentiment)
        /\ h[p].resp.status = 404
        /\ Len(reviews) > 0

\* The first 1000 characters of a text.
First1000(text) ==
    [i \in 1..(IF Len(text) > 1000 THEN 1000 ELSE Len(text)) |-> text[i]]

\* C7: the insert of a successful save raises the movie's totalReviews by
\* one and the count of its sentiment by one, stores the first 1000
\* characters of the submitted text, and leaves the statistics of every
\* other movie as they were; from an empty table, one positive save gives
\* totalReviews 1, positiveCount 1, negativeCount 0 and positivePercentage
\* "100.0".
C7_SaveCountsOnce ==
    [][\A p \in Procs :
         (/\ h[p].pc = "save_insert"
          /\ h'[p].pc = "done"
          /\ h'[p].resp.status = 201)
         => LET b      == h[p].req.body
                before == StatsBlock(reviews, b.movieId.v)
                after  == StatsBlock(reviews', b.movieId.v)
            IN  /\ after.totalReviews = before.totalReviews + 1
                /\ b.sentiment.v = "positive" =>
                      /\ after.positiveCount = before.positiveCount + 1
                      /\ after.negativeCount = before.negativeCount
                /\ b.sentiment.v = "negative" =>
                      /\ after.negativeCount = before.negativeCount + 1
                      /\ after.positiveCount = before.positiveCount
                /\ Len(reviews') = Len(reviews) + 1
                /\ reviews'[Len(reviews')].review_text = First1000(b.text.v)
                /\ reviews'[Len(reviews')].id = h'[p].resp.body.reviewId
                /\ \A m \in CatalogIds \ {b.movieId.v} :
                      StatsBlock(reviews', m) = StatsBlock(reviews, m)
                /\ (reviews = <<>> /\ b.sentiment.v = "positive") =>
                      /\ after.totalReviews = 1
                      /\ after.positiveCount = 1
                      /\ after.negativeCount = 0
                      /\ after.positivePercentage = Str("100.0")]_vars

\* The over-long review was saved and stored cut to 1000 characters, after
\* a review of the other movie.
C7_Witness ==
    \E p \in Procs :
        /\ h[p].pc = "done"
        /\ IsSave(h[p].req)
        /\ h[p].resp.status = 201
        /\ Len(h[p].req.body.text.v) > 1000
        /\ Len(reviews) = 2
        /\ reviews[1].movie_id # reviews[2].movie_id
        /\ reviews[2].id = h[p].resp.body.reviewId
        /\ Len(reviews[2].review_text) = 1000
        /\ StatsBlock(reviews, reviews[2].movie_id).totalReviews = 1

(***************************************************************************)
(* SpecQuery: statistics read from a table that already holds reviews,     *)
(* while the clock advances and nothing is written                         *)
(***************************************************************************)
\* A row of reviews as an earlier save left it.
Row(id, movie, sentiment, confidence, t) ==
    [id          |-> id,
     movie_id    |-> movie,
     review_text |-> <<"o", "k">>,
     sentiment   |-> sentiment,
     confidence  |-> confidence,
     created_at  |-> t]

\* Tick o of day d.
At(d, o) == d * TicksPerDay + o

\* One positive and one negative review of one movie.
H_EXAMPLE ==
    <<Row(1, "tt0111161", "positive", 90000, At(40, 0)),
      Row(2, "tt0111161", "negative", 80000, At(40, 0))>>

\* Two positive reviews of three, and a review of the other movie.
H_THIRDS ==
    <<Row(1, "tt0111161", "positive", 90000, At(39, 0)),
      Row(2, "tt0068646", "positive", 70000, At(39, 1)),
      Row(3, "tt0111161", "positive", 80000, At(40, 0)),
      Row(4, "tt0111161", "negative", 80000, At(40, 1))>>

\* Thirteen reviews of one movie and two of the other: one older than the
\* trend window, two at different times of the window's first day, rows with
\* equal timestamps, and a stored sentiment that is neither positive nor
\* negative.
H_LONG ==
    <<Row(1,  "tt0111161", "positive", 90000, At(5, 0)),
      Row(2,  "tt0111161", "negative", 80000, At(10, 0)),
      Row(3,  "tt0068646", "positive", 70000, At(10, 0)),
      Row(4,  "tt0111161", "positive", 90000, At(10, 1)),
      Row(5,  "tt0111161", "positive", 60000, At(11, 0)),
      Row(6,  "tt0111161", "negative", 90000, At(20, 0)),
      Row(7,  "tt0111161", "neutral",  50000, At(20, 0)),
      Row(8,  "tt0111161", "positive", 80000, At(30, 1)),
      Row(9,  "tt0111161", "positive", 90000, At(38, 0)),
      Row(10, "tt0068646", "negative", 90000, At(39, 0)),
      Row(11, "tt0111161", "negative", 70000, At(39, 0)),
      Row(12, "tt0111161", "positive", 90000, At(39, 1)),
      Row(13, "tt0111161", "positive", 80000, At(40, 0)),
      Row(14, "tt0111161", "negative", 90000, At(40, 0)),
      Row(15, "tt0111161", "positive", Scale, At(40, 1))>>

\* The tables a run starts from: empty, the small ones, and the long one
\* when the first movie had 10, 11 and 13 reviews.
Histories ==
    {<<>>, H_EXAMPLE, H_THIRDS,
     SubSeq(H_LONG, 1, 12), SubSeq(H_LONG, 1, 13), H_LONG}

InitQuery ==
    /\ movies = Catalog
    /\ reviews \in Histories
    /\ now = StartNow
    /\ h = [p \in Procs |-> Idle]
    /\ ui = UiStart

QueryRequests == {StatsRequest("tt0111161"), StatsRequest("tt0068646")}

NextQuery ==
    \/ \E p \in Procs :
          \/ \E r \in QueryRequests : Receive(p, r)
          \/ StatsFindMovie(p)
          \/ StatsAggregate(p)
          \/ StatsRecent(p)
          \/ StatsTrend(p)
          \/ Deliver(p)
    \/ Tick

SpecQuery == InitQuery /\ [][NextQuery]_vars

(***************************************************************************)
(* Claims about the statistics (checked under SpecQuery)                   *)
(***************************************************************************)
\* A handler holding the statistics response of a catalog movie.
StatsAnswered(p) ==
    h[p].pc = "done" /\ IsStats(h[p].req) /\ h[p].resp.status = 200

\* The numeral of q tenths with one fraction digit.
Decimal1(q) == ToString(q \div 10) \o "." \o ToString(q % 10)

\* C11: getStats reports positivePercentage as positiveCount / totalReviews
\* * 100 rounded to one decimal place when the movie has reviews (1 of 2
\* gives "50.0"), and as 0 when it has none; a catalog movie is never
\* answered with an error.
C11_PercentageRounded ==
    \A p \in Procs :
        (h[p].pc = "done" /\ IsStats(h[p].req)
            /\ StatsMovieId(h[p].req) \in CatalogIds)
        => /\ h[p].resp.status = 200
           /\ LET st == h[p].resp.body.stats
              IN  IF st.totalReviews = 0
                  THEN st.positivePercentage = Num(0)
                  ELSE /\ \E q \in 0..1000 :
                             /\ 2 * Abs(q * st.totalReviews
                                          - 1000 * st.positiveCount)
                                   <= st.totalReviews
                             /\ st.positivePercentage = Str(Decimal1(q))
                       /\ (st.totalReviews = 2 /\ st.positiveCount = 1)
                             => st.positivePercentage = Str("50.0")

\* Two of three reviews are positive: the percentage is rounded up to 66.7.
C11_Witness ==
    \E p \in Procs :
        /\ StatsAnswered(p)
        /\ h[p].resp.body.stats.totalReviews = 3
        /\ h[p].resp.body.stats.positiveCount = 2
        /\ h[p].resp.body.stats.positivePercentage = Str("66.7")

\* The sum of the confidences of the rows of rs numbered in S.
RECURSIVE TotalConfidence(_, _)
TotalConfidence(rs, S) ==
    IF S = {} THEN 0
    ELSE LET i == CHOOSE j \in S : TRUE
         IN  rs[i].confidence + TotalConfidence(rs, S \ {i})

\* C12: the averageConfidence of getStats is the mean of the confidences of
\* the movie's stored reviews rounded to three decimal places, and 0 when
\* the movie has none; 0.9 and 0.8 give 0.850.
C12_AverageConfidenceIsMean ==
    \A p \in Procs :
        StatsAnswered(p) =>
            LET id   == StatsMovieId(h[p].req)
                mine == {i \in 1..Len(reviews) : reviews[i].movie_id = id}
                n    == Cardinality(mine)
                avg  == h[p].resp.body.stats.averageConfidence
            IN  /\ avg.t = "number"
                /\ n = 0 => avg.v = 0
                /\ n > 0 =>
                      /\ avg.v % 100 = 0
                      /\ 2 * Abs(avg.v * n - TotalConfidence(reviews, mine))
                            <= 100 * n
                /\ (reviews = H_EXAMPLE /\ id = "tt0111161") => avg.v = 85000

\* Eleven reviews with mean 0.790909...: 0.791 is reported.
C12_Witness ==
    \E p \in Procs :
        /\ StatsAnswered(p)
        /\ h[p].resp.body.stats.totalReviews = 11
        /\ h[p].resp.body.stats.averageConfidence = Num(79100)

\* The rows of movie id in the table.
RowsOf(id) == {reviews[i] : i \in {j \in 1..Len(reviews) : reviews[j].movie_id = id}}

\* C13: the recent list of getStats(m) holds exactly min(10, n) of the n
\* stored reviews of m, each once and none of another movie, newest first,
\* and no review left out is newer than one that is listed; the response
\* carries the list in that order.
C13_RecentListIsNewestTen ==
    \A p \in Procs :
        /\ h[p].pc = "stats_trend" =>
              LET id   == StatsMovieId(h[p].req)
                  rec  == h[p].recent
                  n    == Cardinality(RowsOf(id))
                  kept == {rec[i] : i \in 1..Len(rec)}
              IN  /\ Len(rec) = (IF n < 10 THEN n ELSE 10)
                  /\ Cardinality(kept) = Len(rec)
                  /\ kept \subseteq RowsOf(id)
                  /\ \A i, j \in 1..Len(rec) :
                        i < j => rec[i].created_at >= rec[j].created_at
                  /\ \A x \in RowsOf(id) \ kept : \A y \in kept :
                        x.created_at <= y.created_at
        /\ StatsAnswered(p) =>
              LET id  == StatsMovieId(h[p].req)
                  rec == h[p].resp.body.recentReviews
                  n   == Cardinality(RowsOf(id))
              IN  /\ Len(rec) = (IF n < 10 THEN n ELSE 10)
                  /\ \A i, j \in 1..Len(rec) : i < j => rec[i].date >= rec[j].date
                  /\ \A i \in 1..Len(rec) : \E x \in RowsOf(id) :
                        /\ rec[i].text = x.review_text
                        /\ rec[i].sentiment = x.sentiment
                        /\ rec[i].confidence = x.confidence
                        /\ rec[i].date = x.created_at

\* A movie with thirteen reviews: ten are listed, and of two reviews saved
\* at the same time the one stored later is listed first.
C13_Witness ==
    \E p \in Procs :
        /\ h[p].pc = "stats_trend"
        /\ Cardinality(RowsOf(StatsMovieId(h[p].req))) = 13
        /\ Len(h[p].recent) = 10
        /\ \E i \in 1..9 :
              /\ h[p].recent[i].created_at = h[p].recent[i + 1].created_at
              /\ h[p].recent[i].id > h[p].recent[i + 1].id

\* The calendar dates of the trailing window on day `today`.
WindowDates(today) == {d \in 0..today : d >= today - 30}

\* The number of reviews of movie id saved on date d with sentiment s.
CountOn(id, d, s) ==
    Cardinality({x \in RowsOf(id) :
                    x.created_at \div TicksPerDay = d /\ x.sentiment = s})

\* C14: the trend of getStats(m) has exactly one entry for each date of the
\* trailing 30-day window on which m has a review and none for another
\* date; each entry counts m's positive and negative reviews of its date;
\* the entries are ordered by date, newest first.
C14_TrendIsSparsePerDate ==
    [][\A p \in Procs :
         (h[p].pc = "stats_trend" /\ h'[p].pc = "done")
         => LET id    == StatsMovieId(h[p].req)
                tr    == h'[p].resp.body.trend
                today == now \div TicksPerDay
                dates == {d \in WindowDates(today) :
                             \E x \in RowsOf(id) :
                                x.created_at \div TicksPerDay = d}
            IN  /\ {tr[k].date : k \in 1..Len(tr)} = dates
                /\ Len(tr) = Cardinality(dates)
                /\ \A k \in 1..Len(tr) :
                      /\ tr[k].positive = CountOn(id, tr[k].date, "positive")
                      /\ tr[k].negative = CountOn(id, tr[k].date, "negative")
                /\ \A i, j \in 1..Len(tr) : i < j => tr[i].date > tr[j].date]_vars

\* A trend that leaves out a review older than the window, skips the dates
\* without reviews, counts two reviews on the window's first day and has an
\* entry for a date whose only other review is neither positive nor
\* negative.
C14_Witness ==
    \E p \in Procs :
        /\ StatsAnswered(p)
        /\ reviews = H_LONG
        /\ LET tr == h[p].resp.body.trend
           IN  /\ Len(tr) = 7
               /\ tr[7] = [date |-> 10, positive |-> 1, negative |-> 1]
               /\ tr[5] = [date |-> 20, positive |-> 0, negative |-> 1]

\* C18: two getStats calls for one movie with no save between them report
\* the same totalReviews, positiveCount, negativeCount, positivePercentage
\* and averageConfidence, however much time passes between them.
C18_StatsRepeatable ==
    \A p, q \in Procs :
        (/\ StatsAnswered(p)
         /\ StatsAnswered(q)
         /\ StatsMovieId(h[p].req) = StatsMovieId(h[q].req))
        => h[p].resp.body.stats = h[q].resp.body.stats

\* Two answered calls for the movie with thirteen reviews, whose trends
\* differ because a day passed between them.
C18_Witness ==
    \E p, q \in Procs :
        /\ StatsAnswered(p)
        /\ StatsAnswered(q)
        /\ h[p].resp.body.stats.totalReviews = 13
        /\ h[q].resp.body.stats.totalReviews = 13
        /\ Len(h[p].resp.body.trend) > Len(h[q].resp.body.trend)

(***************************************************************************)
(* Claims about concurrent handlers (checked under Spec)                   *)
(***************************************************************************)
\* C15: in one getStats call the recent list may show a review that the
\* aggregate of the same call did not count, but never the other way round:
\* every review counted in totalReviews is in the table when the recent
\* query runs, so the list holds it whenever the list is not cut at its
\* limit, and the list is never shorter than min(10, totalReviews).
C15_CountedReviewsAreListed ==
    \A p \in Procs :
        /\ h[p].pc = "stats_trend" =>
              LET mine  == ReviewsOf(reviews, StatsMovieId(h[p].req))
                  total == h[p].stats.total_reviews
                  rec   == h[p].recent
              IN  /\ total <= Len(mine)
                  /\ Len(rec) >= (IF total < 10 THEN total ELSE 10)
                  /\ Len(rec) < 10 =>
                        \A i \in 1..total : \E k \in 1..Len(rec) : rec[k] = mine[i]
        /\ StatsAnswered(p) =>
              Len(h[p].resp.body.recentReviews) >=
                 (IF h[p].resp.body.stats.totalReviews < 10
                  THEN h[p].resp.body.stats.totalReviews ELSE 10)

\* Read skew: a response whose totalReviews is 0 while its recent list and
\* its trend show a review saved between the sub-queries.
C15_Witness ==
    \E p \in Procs :
        /\ StatsAnswered(p)
        /\ h[p].resp.body.stats.totalReviews = 0
        /\ Len(h[p].resp.body.recentReviews) = 1
        /\ Len(h[p].resp.body.trend) = 1

\* A handler holding the response of a successful save.
SaveAnswered(p) ==
    h[p].pc = "done" /\ IsSave(h[p].req) /\ h[p].resp.status = 201

\* C16: the reviewId of a successful save is the id of the row that save
\* inserted and differs from every id handed out before; ids increase in
\* insertion order, also when saves run concurrently.
C16_ReviewIdsUniqueAndOrdered ==
    /\ [](/\ \A i, j \in 1..Len(reviews) :
                i < j => reviews[i].id < reviews[j].id
          /\ \A p \in Procs :
                SaveAnswered(p) =>
                   \E i \in 1..Len(reviews) :
                      /\ reviews[i].id = h[p].resp.body.reviewId
                      /\ reviews[i].movie_id = h[p].req.body.movieId.v
                      /\ reviews[i].sentiment = h[p].req.body.sentiment.v
          /\ \A p, q \in Procs :
                (p # q /\ SaveAnswered(p) /\ SaveAnswered(q))
                => h[p].resp.body.reviewId # h[q].resp.body.reviewId)
    /\ [][\A p \in Procs :
            (h[p].pc = "save_insert" /\ h'[p].pc = "done"
                /\ h'[p].resp.status = 201)
            => /\ \A i \in 1..Len(reviews) :
                     reviews[i].id < h'[p].resp.body.reviewId
               /\ Len(reviews') = Len(reviews) + 1
               /\ reviews'[Len(reviews')].id = h'[p].resp.body.reviewId]_vars

\* Two saves of different sentiments, both answered and not yet delivered:
\* the second handler's insert ran first and got id 1, the first handler's
\* got id 2.
C16_Witness ==
    /\ Len(reviews) = 2
    /\ SaveAnswered(1)
    /\ SaveAnswered(2)
    /\ h[1].resp.body.reviewId = 2
    /\ h[2].resp.body.reviewId = 1
    /\ reviews[1].sentiment # reviews[2].sentiment

(***************************************************************************)
(* SpecSearch: one handler serving GET /api/movies over catalogs of        *)
(* different sizes                                                         *)
(***************************************************************************)
DigitSeq == <<"0","1","2","3","4","5","6","7","8","9">>

\* The number of sequels in the large catalog (more than the listing's
\* limit).
SequelCount == 51

ROCKY == <<"R","o","c","k","y">>

\* "Rocky 01", "Rocky 02", ...
Sequel(n) ==
    [id         |-> "rk" \o ToString(n),
     title      |-> ROCKY \o <<" ", DigitSeq[(n \div 10) + 1],
                               DigitSeq[(n % 10) + 1]>>,
     year       |-> 1976 + n,
     poster_url |-> Null]

\* A title with a "%" in it.
WOLF ==
    [id         |-> "tt8774798",
     title      |-> <<"1","0","0","%"," ","W","o","l","f">>,
     year       |-> 2020,
     poster_url |-> Null]

BigCatalog == Catalog \cup {WOLF} \cup {Sequel(n) : n \in 1..SequelCount}

SearchCatalogs == {Catalog, Catalog \cup {WOLF}, BigCatalog}

InitSearch ==
    /\ movies \in SearchCatalogs
    /\ reviews = <<>>
    /\ now = 0
    /\ h = [p \in Procs |-> Idle]
    /\ ui = UiStart

QueryAlphabet == {"e", "T", "%", "_", "z"}

\* The longest query enumerated character by character.
MaxQueryLen == 2

\* searchParams.get('q'): null without the parameter, else its text.
SearchQueries ==
    {Null}
    \cup {Str(s) : s \in UNION {[1..n -> QueryAlphabet] : n \in 0..MaxQueryLen}}
    \cup {Str(ROCKY), Str(<<"0", "%">>), Str(<<"z","z","z","z">>)}

SearchRequest(q) == Request("GET", <<"api", "movies">>, q, NoBody)

SearchRequests == {SearchRequest(q) : q \in SearchQueries}

NextSearch ==
    \/ \E r \in SearchRequests : Receive(1, r)
    \/ SearchReturn(1)
    \/ Deliver(1)

SpecSearch == InitSearch /\ [][NextSearch]_vars

(***************************************************************************)
(* Claims about GET /api/movies (checked under SpecSearch)                 *)
(***************************************************************************)
UPPER ==
    <<"A","B","C","D","E","F","G","H","I","J","K","L","M",
      "N","O","P","Q","R","S","T","U","V","W","X","Y","Z">>

LOWER ==
    <<"a","b","c","d","e","f","g","h","i","j","k","l","m",
      "n","o","p","q","r","s","t","u","v","w","x","y","z">>

\* The same character, or the same letter in the other case.
SameLetter(a, b) ==
    a = b \/ \E i \in 1..26 : {a, b} = {UPPER[i], LOWER[i]}

\* title contains q as a substring, the case of letters set aside.
ContainsText(q, title) ==
    \E k \in 0..(Len(title) - Len(q)) :
        \A i \in 1..Len(q) : SameLetter(q[i], title[k + i])

\* The runs of q between its "%" characters.
RECURSIVE QueryPieces(_)
QueryPieces(q) ==
    LET pct == {i \in 1..Len(q) : q[i] = "%"}
    IN  IF pct = {} THEN <<q>>
        ELSE <<SubSeq(q, 1, Min(pct) - 1)>>
                \o QueryPieces(SubSeq(q, Min(pct) + 1, Len(q)))

\* piece lies in s at position k, a "_" standing for any one character.
PieceAt(piece, s, k) ==
    /\ k + Len(piece) - 1 <= Len(s)
    /\ \A i \in 1..Len(piece) :
          piece[i] = "_" \/ SameLetter(piece[i], s[k + i - 1])

\* The pieces lie in s one after the other, from position `from` on.
RECURSIVE PiecesFit(_, _, _)
PiecesFit(ps, s, from) ==
    \/ Len(ps) = 0
    \/ \E k \in from..(Len(s) + 1) :
          /\ PieceAt(Head(ps), s, k)
          /\ PiecesFit(Tail(ps), s, k + Len(Head(ps)))

\* title matches q read as a pattern: "%" stands for any run of characters,
\* "_" for any one character, a letter for itself in either case.
MatchesPattern(q, title) == PiecesFit(QueryPieces(q), title, 1)

\* A handler holding the answer to a search.
SearchDone(p) == h[p].pc = "done" /\ IsSearch(h[p].req)

\* What both readings of the claim share: the search succeeds, count is the
\* length of the list, the list is in title order without repetition and
\* holds catalog movies; without a query it is the first min(50, catalog
\* size) movies; with one it has at most 20.
SearchShape(p) ==
    LET res  == h[p].resp.body.movies
        q    == h[p].req.q
        kept == {res[i] : i \in 1..Len(res)}
    IN  /\ h[p].resp.status = 200
        /\ h[p].resp.body.count = Len(res)
        /\ kept \subseteq movies
        /\ Cardinality(kept) = Len(res)
        /\ \A i, j \in 1..Len(res) :
              i < j => ~TitleLess(res[j].title, res[i].title)
        /\ (q.t # "string" \/ Len(q.v) = 0) =>
              /\ Len(res) = (IF Cardinality(movies) < 50
                             THEN Cardinality(movies) ELSE 50)
              /\ \A x \in movies \ kept : \A y \in kept :
                    ~TitleLess(x.title, y.title)
        /\ (q.t = "string" /\ Len(q.v) > 0) => Len(res) <= 20

\* C19: searchMovies succeeds with count equal to the length of
\* the list; without a query it lists the first min(50, catalog size)
\* movies in title order; with a query it returns at most 20 movies, in
\* title order, each with a title that contains the query as a substring.
C19_SearchBySubstring ==
    \A p \in Procs :
        SearchDone(p) =>
            /\ SearchShape(p)
            /\ (h[p].req.q.t = "string" /\ Len(h[p].req.q.v) > 0) =>
                  \A i \in 1..Len(h[p].resp.body.movies) :
                     ContainsText(h[p].req.q.v, h[p].resp.body.movies[i].title)

\* What the search does guarantee (C19 with the query read as a pattern):
\* with a query the movies returned are movies whose title matches the
\* query read as a pattern ("%" any run of characters, "_" any one
\* character, letters in either case); a query without "%" and "_" returns
\* only titles that contain it, and a query that no title matches returns
\* the empty list.
C19_SearchByPattern ==
    \A p \in Procs :
        SearchDone(p) =>
            /\ SearchShape(p)
            /\ (h[p].req.q.t = "string" /\ Len(h[p].req.q.v) > 0) =>
                  LET q   == h[p].req.q.v
                      res == h[p].resp.body.movies
                  IN  /\ \A i \in 1..Len(res) : MatchesPattern(q, res[i].title)
                      /\ (\A i \in 1..Len(q) : q[i] \notin {"%", "_"}) =>
                            \A i \in 1..Len(res) : ContainsText(q, res[i].title)
                      /\ (\A m \in movies : ~MatchesPattern(q, m.title)) =>
                            Len(res) = 0

\* The query "%" over the large catalog: every title matches, the list is
\* cut at 20 movies and starts with the title that sorts first; 19 of the 20
\* titles have no "%" in them.
C19_Witness ==
    \E p \in Procs :
        /\ SearchDone(p)
        /\ h[p].resp.status = 200
        /\ h[p].req.q = Str(<<"%">>)
        /\ Cardinality(movies) > 50
        /\ h[p].resp.body.count = 20
        /\ h[p].resp.body.movies[1] = WOLF
        /\ h[p].resp.body.movies[20].title = ROCKY \o <<" ", "1", "9">>

(***************************************************************************)
(* SpecRoutes: one handler serving every route, OPTIONS and requests that  *)
(* match no route                                                          *)
(***************************************************************************)
GOOD_REVIEW ==
    Body(Str("tt0111161"), Str(BEST_MOVIE), Str("positive"), Num(95000))

RouteRequests ==
    {Request("OPTIONS", path, Undefined, NoBody) :
        path \in {<<"api", "predict">>, <<"api", "reviews">>, <<"nowhere">>}}
    \cup {PredictRequest(t) : t \in {Undefined, Str(<<" ">>), Str(GREAT_MOVIE)}}
    \cup {Request("POST", <<"api", "predict">>, Undefined, NoBody)}
    \cup {SaveRequest(b) :
            b \in {GOOD_REVIEW, NoBody,
                   [GOOD_REVIEW EXCEPT !.movieId = Str("tt9999999")],
                   [GOOD_REVIEW EXCEPT !.text = Undefined],
                   [GOOD_REVIEW EXCEPT !.confidence = Undefined]}}
    \cup {StatsRequest(id) : id \in {"tt0111161", "tt9999999"}}
    \cup {SearchRequest(q) : q \in {Null, Str(<<"e">>)}}
    \cup {Request("GET", <<"api", "health">>, Undefined, NoBody)}
    \cup {Request("GET", <<"api", "predict">>, Undefined, NoBody),
          Request("DELETE", <<"api", "reviews">>, Undefined, NoBody),
          Request("POST", <<"api", "movies">>, Undefined, GOOD_REVIEW),
          Request("POST", <<"api", "movies", "tt0111161", "sentiment">>,
                  Undefined, GOOD_REVIEW),
          Request("GET", <<"api", "movies", "tt0111161">>, Undefined, NoBody),
          Request("GET", <<"api", "health", "">>, Undefined, NoBody),
          Request("GET", <<>>, Undefined, NoBody)}

\* A suspended handler is resumed: its database or classifier call settles.
Resume(p) ==
    \/ PredictAiReturn(p)
    \/ SaveFindMovie(p)
    \/ SaveInsert(p)
    \/ StatsFindMovie(p)
    \/ StatsAggregate(p)
    \/ StatsRecent(p)
    \/ StatsTrend(p)
    \/ SearchReturn(p)

NextRoutes ==
    \/ \E r \in RouteRequests : Receive(1, r)
    \/ Resume(1)
    \/ Deliver(1)

SpecRoutes == Init /\ [][NextRoutes]_vars

\* The runtime resumes a handler whenever the call it awaits has settled,
\* and every call to the database or the classifier settles.
FairRoutes == SpecRoutes /\ WF_vars(Resume(1))

(***************************************************************************)
(* Claims about the router (checked under SpecRoutes and FairRoutes)       *)
(***************************************************************************)
\* C17: the reviews table changes only by a successful save appending one
\* row to it; every other step, every request of another route and every
\* request that is answered with an error leaves it as it is; the rows
\* already stored and the catalog never change.
C17_AppendOnly ==
    [][/\ movies' = movies
       /\ Len(reviews') >= Len(reviews)
       /\ SubSeq(reviews', 1, Len(reviews)) = reviews
       /\ reviews' # reviews =>
             /\ Len(reviews') = Len(reviews) + 1
             /\ \E p \in Procs :
                   /\ h[p].pc # "idle"
                   /\ h[p].req.method = "POST"
                   /\ h[p].req.path = <<"api", "reviews">>
                   /\ h'[p].pc = "done"
                   /\ h'[p].resp.status = 201
       /\ \A p \in Procs :
             (/\ h[p].pc \notin {"idle", "done"}
              /\ h'[p].pc = "done"
              /\ h'[p].resp.status # 201)
             => reviews' = reviews
       /\ \A p \in Procs :
             (/\ h[p].pc \notin {"idle", "done"}
              /\ h'[p].pc = "done"
              /\ h'[p].resp.status = 201)
             => Len(reviews') = Len(reviews) + 1]_vars

\* A save that failed at its insert, answered 500, with the two reviews
\* saved before it still in the table.
C17_Witness ==
    \E p \in Procs :
        /\ h[p].pc = "done"
        /\ h[p].req.path = <<"api", "reviews">>
        /\ h[p].req.body.confidence = Undefined
        /\ h[p].resp.status = 500
        /\ Len(reviews) = 2
        /\ reviews[1].id = 1
        /\ reviews[2].id = 2

\* The five routes of the API.
FiveRoutes(r) ==
    \/ r.method = "POST" /\ r.path = <<"api", "predict">>
    \/ r.method = "POST" /\ r.path = <<"api", "reviews">>
    \/ r.method = "GET" /\ r.path = <<"api", "movies">>
    \/ r.method = "GET" /\ r.path = <<"api", "health">>
    \/ /\ r.method = "GET"
       /\ Len(r.path) = 4
       /\ r.path[1] = "api" /\ r.path[2] = "movies" /\ r.path[4] = "sentiment"
       /\ r.path[3] # ""

\* C20: every request gets exactly one response: a handler ends only by
\* delivering the response it built, never changes it, and always comes to
\* build one; OPTIONS on any path is answered with an empty body; a request
\* matching none of the five routes is answered 404; a failure thrown while
\* a route is handled (a body that is not JSON, a rejected insert, a
\* classifier failure) is answered 500; every response with a status of 400
\* or above carries an `error` field.
C20_EveryRequestAnswered ==
    /\ [](\A p \in Procs :
            h[p].pc = "done" =>
               /\ h[p].req.method = "OPTIONS" =>
                     h[p].resp = [status |-> 200, body |-> [empty |-> TRUE]]
               /\ (h[p].req.method # "OPTIONS" /\ ~FiveRoutes(h[p].req)) =>
                     h[p].resp.status = 404
               /\ (/\ h[p].req.method = "POST"
                   /\ h[p].req.path \in {<<"api", "predict">>, <<"api", "reviews">>}
                   /\ ~h[p].req.body.json) =>
                     h[p].resp.status = 500
               /\ h[p].resp.status >= 400 =>
                     /\ "error" \in DOMAIN h[p].resp.body
                     /\ Len(h[p].resp.body.error) > 0)
    /\ [][\A p \in Procs :
            /\ (h[p].pc # "idle" /\ h'[p].pc = "idle") => h[p].pc = "done"
            /\ (h[p].pc = "done" /\ h'[p].pc # "idle") => h'[p] = h[p]
            /\ (h[p].pc # "idle" /\ h'[p].pc # "idle") => h'[p].req = h[p].req
            /\ (/\ h[p].pc = "save_insert"
                /\ h[p].req.body.confidence = Undefined
                /\ h'[p].pc = "done") => h'[p].resp.status = 500
            /\ (h[p].pc = "ai" /\ h'[p].pc = "done") =>
                  h'[p].resp.status \in {200, 500}]_vars
    /\ \A p \in Procs : (h[p].pc # "idle") ~> (h[p].pc = "done")

\* The classifier failed while a predict request was handled: 500 with an
\* error field.
C20_Witness ==
    \E p \in Procs :
        /\ h[p].pc = "done"
        /\ h[p].req.method = "POST"
        /\ h[p].req.path = <<"api", "predict">>
        /\ h[p].asked = <<GREAT_MOVIE_CLEAN>>
        /\ h[p].resp.status = 500
        /\ h[p].resp.body.error = "Internal server error"

(***************************************************************************)
(* The accepted input and the classifier input (checked under SpecAnalyze) *)
(***************************************************************************)
\* C21: whenever analyze accepts its input (the raw text is non-empty after
\* trimming), the cleaned text it passes to the classifier is non-empty.
C21_AcceptedInputStaysNonEmpty ==
    \A p \in Procs :
        (/\ h[p].pc \in {"ai", "done"}
         /\ IsPredict(h[p].req)
         /\ h[p].req.body.json
         /\ ~PredictRejects(h[p].req.body))
        => /\ h[p].pc = "ai" => Len(h[p].cleanedText) > 0
           /\ h[p].pc = "done" =>
                 \A i \in 1..Len(h[p].asked) : Len(h[p].asked[i]) > 0

(***************************************************************************)
(* The browser: MovieSearch                                                *)
(***************************************************************************)
\* The continuation of searchMovies that waits for the response.
SearchFetch == [kind |-> "search"]

\* fetch(`${API_URL}/movies?q=${encodeURIComponent(query)}`): the handler
\* reads the same text back with url.searchParams.get('q').
SearchRequestOf(query) == SearchRequest(Str(query))

\* onChange of the search box: setSearchQuery(q), then the effect on
\* [searchQuery].  A text longer than one character starts searchMovies
\* (setIsLoading(true) and the fetch); a shorter one clears the list and
\* hides the dropdown.
onChangeSearch(q) ==
    /\ q # ui.searchQuery
    /\ IF Len(q) > 1
       THEN \E p \in Procs :
               /\ Accept(p, SearchRequestOf(q))
               /\ ui' = [ui EXCEPT !.searchQuery = q,
                                   !.isLoading = TRUE,
                                   !.pending[p] = SearchFetch]
       ELSE /\ ui' = [ui EXCEPT !.searchQuery = q,
                                !.movies = <<>>,
                                !.showDropdown = FALSE]
            /\ UNCHANGED h
    /\ UNCHANGED <<movies, reviews, now>>

\* data.movies || []
MoviesOf(resp) ==
    IF "movies" \in DOMAIN resp.body THEN resp.body.movies ELSE <<>>

\* The rest of searchMovies after `await fetch`: the response arrived
\* (setMovies, setShowDropdown(true)) or the fetch was rejected (catch);
\* finally setIsLoading(false).
searchMovies(p, arrived) ==
    /\ ui.pending[p] = SearchFetch
    /\ h[p].pc = "done"
    /\ ui' = IF arrived
             THEN [ui EXCEPT !.movies = MoviesOf(h[p].resp),
                             !.showDropdown = TRUE,
                             !.isLoading = FALSE,
                             !.pending[p] = NoFetch]
             ELSE [ui EXCEPT !.isLoading = FALSE, !.pending[p] = NoFetch]
    /\ h' = [h EXCEPT ![p] = Idle]
    /\ UNCHANGED <<movies, reviews, now>>

\* The movies of the dropdown: showDropdown && movies.length > 0.
Dropdown ==
    IF ui.showDropdown THEN {ui.movies[i] : i \in 1..Len(ui.movies)} ELSE {}

\* The requests whose continuation belongs to the mounted SentimentResult
\* lose it when the component is unmounted.
Unmounted(pending) ==
    [p \in Procs |->
        IF pending[p].kind = "save"
        THEN [pending[p] EXCEPT !.live = FALSE, !.shown = FALSE]
        ELSE pending[p]]

\* App.handleMovieSelect: setSelectedMovie(movie), setSentimentResult(null),
\* which unmounts SentimentResult, and setShowMovieDetail(false).
handleMovieSelect(u, movie) ==
    [u EXCEPT !.selectedMovie = movie,
              !.sentimentResult = Null,
              !.showMovieDetail = FALSE,
              !.isSaving = FALSE,
              !.saved = FALSE,
              !.saveError = Null,
              !.pending = Unmounted(u.pending),
              !.analyzedFor = Null,
              !.shownSaved = FALSE]

\* A click on a movie of the dropdown: onMovieSelect(movie), then
\* setSearchQuery('') and setShowDropdown(false); the effect on
\* [searchQuery] clears the list when the text changed.
handleSelectMovie(movie) ==
    /\ movie \in Dropdown
    /\ ui' = [handleMovieSelect(ui, movie) EXCEPT
                 !.searchQuery = <<>>,
                 !.showDropdown = FALSE,
                 !.movies = IF ui.searchQuery # <<>> THEN <<>> ELSE ui.movies]
    /\ UNCHANGED <<movies, reviews, now, h>>

(***************************************************************************)
(* SpecSearchUI: the search box of the page and the handlers that serve    *)
(* its requests                                                            *)
(***************************************************************************)
\* The texts typed into the search box.
UiQueries == {<<>>, <<"T">>, <<"T", "h">>, <<"G", "o">>, <<"z", "z">>}

NextSearchUI ==
    \/ \E q \in UiQueries : onChangeSearch(q)
    \/ \E p \in Procs : SearchReturn(p)
    \/ \E p \in Procs : \E arrived \in BOOLEAN : searchMovies(p, arrived)
    \/ \E movie \in movies : handleSelectMovie(movie)

SpecSearchUI == Init /\ [][NextSearchUI]_vars

\* No search request of the page is outstanding.
SearchesCompleted == \A p \in Procs : ui.pending[p] # SearchFetch

\* C24: once all outstanding search requests have completed, the listed
\* movies are the results for the current search text (a response to an
\* older query never replaces the results of a newer one), and no dropdown
\* is shown when the text is one character or less, which includes the
\* empty text left by selecting a movie.
C24_ListedMoviesAreForCurrentText ==
    SearchesCompleted =>
        IF Len(ui.searchQuery) > 1
        THEN ui.showDropdown =>
                ui.movies \in SearchMovies(movies, Str(ui.searchQuery))
        ELSE Dropdown = {}

(***************************************************************************)
(* The browser: ReviewInput                                                *)
(***************************************************************************)
\* onChange of the textarea, which is disabled until a movie is selected.
onChangeReview(text) ==
    /\ ui.selectedMovie # Null
    /\ text # ui.reviewText
    /\ ui' = [ui EXCEPT !.reviewText = text]
    /\ UNCHANGED <<movies, reviews, now, h>>

\* The continuation of handleAnalyze that waits for the response.
AnalyzeFetch(movie) == [kind |-> "analyze", forMovie |-> movie]

\* handleAnalyze up to `await fetch`, started by the Analyze button or by
\* Ctrl/Cmd+Enter in the textarea (handleKeyPress does not look at
\* isAnalyzing).  A blank text sets the error and returns.
handleAnalyze ==
    /\ ui.selectedMovie # Null
    /\ IF Len(Trim(ui.reviewText)) = 0
       THEN /\ ui' = [ui EXCEPT !.inputError = Str("Please enter a review")]
            /\ UNCHANGED h
       ELSE \E p \in Procs :
               /\ Accept(p, PredictRequest(Str(ui.reviewText)))
               /\ ui' = [ui EXCEPT
                           !.isAnalyzing = TRUE,
                           !.inputError = Null,
                           !.pending[p] = AnalyzeFetch(ui.selectedMovie.id)]
    /\ UNCHANGED <<movies, reviews, now>>

\* response.ok
Ok(resp) == resp.status >= 200 /\ resp.status <= 299

\* The saves in flight no longer belong to the displayed result.
Superseded(pending) ==
    [p \in Procs |->
        IF pending[p].kind = "save"
        THEN [pending[p] EXCEPT !.shown = FALSE]
        ELSE pending[p]]

\* App.handleSentimentAnalyzed: setSentimentResult(result).  SentimentResult
\* is mounted by it when no result was displayed, and keeps its state
\* (isSaving, saved, error) when one was.
handleSentimentAnalyzed(u, result, movie) ==
    [u EXCEPT !.sentimentResult = result,
              !.pending = Superseded(u.pending),
              !.analyzedFor = movie,
              !.shownSaved = FALSE]

\* The rest of handleAnalyze after `await fetch`: the result is handed to
\* App, or the error is set when the fetch was rejected or the response is
\* not ok; finally setIsAnalyzing(false).
handleAnalyzeSettled(p, arrived) ==
    /\ ui.pending[p].kind = "analyze"
    /\ h[p].pc = "done"
    /\ LET data == h[p].resp.body
           u    == [ui EXCEPT !.isAnalyzing = FALSE, !.pending[p] = NoFetch]
       IN  ui' = IF arrived /\ Ok(h[p].resp)
                 THEN handleSentimentAnalyzed(
                         u,
                         [text       |-> data.text,
                          sentiment  |-> data.sentiment,
                          confidence |-> data.confidence],
                         ui.pending[p].forMovie)
                 ELSE [u EXCEPT !.inputError =
                          Str("Failed to analyze sentiment. Please try again.")]
    /\ h' = [h EXCEPT ![p] = Idle]
    /\ UNCHANGED <<movies, reviews, now>>

(***************************************************************************)
(* The browser: SentimentResult                                            *)
(***************************************************************************)
\* The continuation of handleSaveReview that waits for the response: `live`
\* while the component that started it is mounted, `shown` while the result
\* it saves is the one displayed.
SaveFetch(movie) ==
    [kind |-> "save", live |-> TRUE, shown |-> TRUE, forMovie |-> movie]

\* The Save button: selectedMovie && !saved, disabled while isSaving.
SaveOffered ==
    /\ ui.sentimentResult # Null
    /\ ui.selectedMovie # Null
    /\ ~ui.saved

\* handleSaveReview up to `await fetch`.
handleSaveReview ==
    /\ SaveOffered
    /\ ~ui.isSaving
    /\ \E p \in Procs :
          /\ Accept(p, SaveRequest(Body(Str(ui.selectedMovie.id),
                                        ui.sentimentResult.text,
                                        ui.sentimentResult.sentiment,
                                        ui.sentimentResult.confidence)))
          /\ ui' = [ui EXCEPT !.isSaving = TRUE,
                              !.saveError = Null,
                              !.pending[p] = SaveFetch(ui.analyzedFor)]
    /\ UNCHANGED <<movies, reviews, now>>

\* The rest of handleSaveReview after `await fetch`: setSaved(true), or the
\* error when the fetch was rejected or the response is not ok; finally
\* setIsSaving(false).  The setters of an unmounted component do nothing.
handleSaveSettled(p, arrived) ==
    /\ ui.pending[p].kind = "save"
    /\ h[p].pc = "done"
    /\ LET ok == arrived /\ Ok(h[p].resp)
           u  == [ui EXCEPT !.pending[p] = NoFetch,
                            !.shownSaved = @ \/ (ok /\ ui.pending[p].shown)]
       IN  ui' = IF ~ui.pending[p].live THEN u
                 ELSE IF ok
                      THEN [u EXCEPT !.saved = TRUE, !.isSaving = FALSE]
                      ELSE [u EXCEPT !.saveError =
                                        Str("Failed to save review. Please try again."),
                                     !.isSaving = FALSE]
    /\ h' = [h EXCEPT ![p] = Idle]
    /\ UNCHANGED <<movies, reviews, now>>

(***************************************************************************)
(* SpecReviewUI: the page (search, review, result) and the handlers that   *)
(* serve its requests                                                      *)
(***************************************************************************)
GOOD_TEXT == <<"G", "o", "o", "d">>

BAD_TEXT == <<"B", "a", "d">>

\* The texts typed into the review box.
ReviewTexts == {GOOD_TEXT, BAD_TEXT}

\* What the classifier answers to the page's requests.
UiAiOutcomes ==
    {[ok |-> FALSE, out |-> <<>>],
     [ok |-> TRUE, out |-> <<[label |-> Str("POSITIVE"), score |-> Num(92346)]>>]}

\* MovieSearch hands a movie of its dropdown to App; the search box itself
\* is left to SpecSearchUI.
onMovieSelect(movie) ==
    /\ ui' = handleMovieSelect(ui, movie)
    /\ UNCHANGED <<movies, reviews, now, h>>

NextReviewUI ==
    \/ \E movie \in movies : onMovieSelect(movie)
    \/ \E text \in ReviewTexts : onChangeReview(text)
    \/ handleAnalyze
    \/ \E p \in Procs : \E ai \in UiAiOutcomes : PredictAiSettles(p, ai)
    \/ \E p \in Procs : \E arrived \in BOOLEAN : handleAnalyzeSettled(p, arrived)
    \/ handleSaveReview
    \/ \E p \in Procs : SaveFindMovie(p)
    \/ \E p \in Procs : SaveInsert(p)
    \/ \E p \in Procs : \E arrived \in BOOLEAN : handleSaveSettled(p, arrived)

SpecReviewUI == Init /\ [][NextReviewUI]_vars

(***************************************************************************)
(* Claims about the page (checked under SpecReviewUI)                      *)
(***************************************************************************)
\* C22: a review saved through the Save button is stored under the movie
\* that was selected when its analysis was requested: the displayed result
\* was requested for the selected movie (a response that arrives after
\* another movie was selected is not shown against it), and every save
\* request carries the movie its result was requested for.
C22_SavedUnderAnalyzedMovie ==
    /\ ui.sentimentResult # Null => ui.analyzedFor = ui.selectedMovie.id
    /\ \A p \in Procs :
          ui.pending[p].kind = "save" =>
             h[p].req.body.movieId = Str(ui.pending[p].forMovie)

\* The confirmation: {saved && ...}.
SavedBanner == ui.sentimentResult # Null /\ ui.saved

\* C23: whenever an analysis result is displayed for a selected movie and
\* that result has not been saved successfully, the Save button is
\* offered; the confirmation is shown only for a result that was saved,
\* also after a second review was analyzed for the same movie.
C23_SaveOfferedUntilSaved ==
    /\ (/\ ui.sentimentResult # Null
        /\ ui.selectedMovie # Null
        /\ ~ui.shownSaved) => SaveOffered
    /\ SavedBanner => ui.shownSaved

====
